---- MODULE Spec2Model ----
(***************************************************************************)
(* Model of ml_models/productivity_forecaster.py (ProductivityForecaster): *)
(* the per-user daily productivity table kept in productivity_daily.csv,   *)
(* its upsert (update_today), the history backfill of the read path        *)
(* (_ensure_user_history), get_trend_data and get_prediction_summary, run  *)
(* by the request threads of the web server.  Every _load_daily_data and   *)
(* every _save_daily_data is one step of the calling thread; a thread's    *)
(* DataFrame between the two is private to it.                             *)
(*                                                                         *)
(* Spec runs the handlers concurrently, SeqSpec one request at a time,     *)
(* FaultSpec one request at a time over a file that something outside the  *)
(* program can remove, overwrite or lock, and TrendSpec runs               *)
(* get_trend_data and get_prediction_summary from the read of              *)
(* _prepare_series on, over a range of stored tables.                      *)
(*                                                                         *)
(* With it, models/attendance_models (AttendancePredictor and its three    *)
(* sub-predictors: train_all_models, predict_all and the streak forecast)  *)
(* and the prediction store of routes/predictions_api.py (load_store,      *)
(* save_store and update_section under _lock).  AttSpec runs the           *)
(* attendance predictor alone, StoreSpec the update_section calls of the   *)
(* request threads.                                                        *)
(*                                                                         *)
(* A score is a float in the source; here it is the exact rational         *)
(* <<numerator, denominator>> in lowest terms.  A date is a day number.    *)
(* A probability of the attendance predictor is a number of thousandths.   *)
(***************************************************************************)
EXTENDS Integers, Sequences, FiniteSets, TLC

VARIABLES
    file,      \* the lines of productivity_daily.csv after the header
    disk,      \* what a read of productivity_daily.csv meets: "ok", or a fault
    today,     \* datetime.utcnow().date(), as a day number
    pc,        \* pc[t]: where request thread t stands in its handler
    op,        \* op[t]: the call thread t is serving, with its arguments
    df,        \* df[t]: the DataFrame thread t holds between load and save
    ret,       \* ret[t]: what the call served by thread t returns
    served,    \* history: the users whose last summary is newer than every write
    written,   \* history: (user_id, date) pairs of the completed writes
    ncalls,    \* number of calls started
    predictor,        \* the sub-predictors of the attendance predictor
    trained_models,   \* the model files under trained_models/
    att,              \* the attendance call being served, and its result
    prediction_store, \* the sections of prediction_store.json
    lock,             \* the holder of _lock of predictions_api.py, or 0
    upd               \* upd[t]: the update_section call of thread t

\* the state of the productivity forecaster, of the attendance predictor and
\* of the prediction store
fvars == <<file, disk, today, pc, op, df, ret, served, written, ncalls>>
avars == <<predictor, trained_models, att>>
svars == <<prediction_store, lock, upd>>

vars == <<file, disk, today, pc, op, df, ret, served, written, ncalls,
          predictor, trained_models, att, prediction_store, lock, upd>>

-----------------------------------------------------------------------------
(* Bounds of the model *)

\* calls started in one behaviour
MaxCalls == 2
\* day roll-overs of the clock in one behaviour
MaxDay == 1
\* the days argument of _ensure_user_history (365 in the source)
days == 2

Threads == {1, 2}
Users == {1, 2}
\* an Optional argument: None, or Some(x); a supplied score is its rational
None == << >>
Some(x) == <<x>>

(* Program constants *)
FallbackTotal == 6
FallbackScore == 70
history_days == 30
horizon == 7
MinFitPoints == 5

-----------------------------------------------------------------------------
(* Scores as exact rationals *)

RECURSIVE GCD(_, _)
GCD(a, b) == IF b = 0 THEN a ELSE GCD(b, a % b)

\* the rational n/d (n >= 0, d > 0) in lowest terms
Frac(n, d) == LET g == GCD(n, d) IN IF n = 0 THEN <<0, 1>> ELSE <<n \div g, d \div g>>

\* float(x) of an integer x
Float(x) == <<x, 1>>

\* Python's round() of the rational n/d >= 0: nearest integer, ties to even
Round(n, d) ==
    LET q == n \div d
        r2 == 2 * (n % d)
    IN  IF r2 < d THEN q
        ELSE IF r2 > d THEN q + 1
        ELSE IF q % 2 = 0 THEN q ELSE q + 1

Min(a, b) == IF a < b THEN a ELSE b
Max(a, b) == IF a > b THEN a ELSE b

\* a < b of two rationals
Less(a, b) == a[1] * b[2] < b[1] * a[2]

\* a + b of two rationals
FracAdd(a, b) == Frac(a[1] * b[2] + b[1] * a[2], a[2] * b[2])

\* the sum of a sequence of rationals
RECURSIVE SumScores(_)
SumScores(y) ==
    IF Len(y) = 0 THEN <<0, 1>>
    ELSE FracAdd(SumScores(SubSeq(y, 1, Len(y) - 1)), y[Len(y)])

\* a sequence in reverse order
Reverse(s) == [i \in 1..Len(s) |-> s[Len(s) + 1 - i]]

\* the sum of a sequence of integers
RECURSIVE SumInts(_)
SumInts(s) == IF Len(s) = 0 THEN 0 ELSE SumInts(SubSeq(s, 1, Len(s) - 1)) + s[Len(s)]

-----------------------------------------------------------------------------
(* The table and its CSV file *)

Row(u, d, s, c, t) == [user_id |-> u, date |-> d, score |-> s, completed |-> c, total |-> t]

\* DataFrame.to_csv(index=False): one line per row, the columns in header order
to_csv(frame) ==
    [i \in 1..Len(frame) |->
        <<frame[i].user_id, frame[i].date, frame[i].score, frame[i].completed, frame[i].total>>]

\* pd.read_csv: one row per line, the fields named by the header
read_csv(lines) ==
    [i \in 1..Len(lines) |->
        Row(lines[i][1], lines[i][2], lines[i][3], lines[i][4], lines[i][5])]

\* _load_daily_data of a readable file
load_daily_data(lines) == read_csv(lines)

\* the faults a read of the file can meet:
\*   "missing"     no such file: pd.read_csv raises FileNotFoundError;
\*   "unparsable"  a zero-byte file, ragged lines, rows without a date column
\*                 or with dates that pd.to_datetime rejects: line 47 or 49 raises;
\*   "foreign"     a well-formed header of other columns and no rows:
\*                 pd.read_csv returns an empty frame, line 48 skips the dates;
\*   "denied"      the path can be neither read nor written (no permission,
\*                 or a directory): pd.read_csv and DataFrame.to_csv both raise
DiskFaults == {"missing", "unparsable", "foreign", "denied"}

\* lines 46-50 and 51-56: the except branch is entered and its to_csv succeeds
LoadResets == disk \in {"missing", "unparsable"}

\* _load_daily_data returns a frame with the five columns
LoadReturns == disk = "ok" \/ LoadResets

\* lines 45-56: the frame _load_daily_data returns
LoadedFrame == IF disk = "ok" THEN load_daily_data(file) ELSE << >>

\* _save_daily_data, had the last row of the frame not reached the file
save_daily_data_short(frame) ==
    to_csv(IF Len(frame) = 0 THEN frame ELSE SubSeq(frame, 1, Len(frame) - 1))

\* _save_daily_data
save_daily_data(frame) == to_csv(frame)

\* lines 51-55: the file after _load_daily_data: the except branch writes the
\* empty five-column frame
LoadedFile == IF disk = "ok" THEN file ELSE save_daily_data(<< >>)

\* the indices of the rows of (u, d) in a frame, i.e. df[mask].index
MaskIndex(frame, u, d) == {i \in 1..Len(frame) : frame[i].user_id = u /\ frame[i].date = d}

SetMin(S) == CHOOSE x \in S : \A y \in S : x <= y

-----------------------------------------------------------------------------
(* update_today: the upsert of today's record *)

\* (today_score or 70): None and 0.0 are both falsy
ScoreOrFallback(s) == IF s = None \/ s[1] = 0 THEN Float(FallbackScore) ELSE s

\* InsertTotal, had the fallback of an omitted total been zero
InsertTotalZero(t) == IF t = None THEN 0 ELSE t[1]

\* lines 152-153
InsertTotal(t) == IF t = None THEN FallbackTotal ELSE t[1]

\* lines 154-155: max(0, min(total, int(round((today_score or 70) / 100 * total))))
InsertCompleted(s, c, t) ==
    IF c = None
    THEN LET tt == InsertTotal(t)
             so == ScoreOrFallback(s)
         IN  Max(0, Min(tt, Round(so[1] * tt, so[2] * 100)))
    ELSE c[1]

\* lines 156-157: (completed / max(total, 1)) * 100
InsertScore(s, c, t) ==
    IF s = None
    THEN Frac(InsertCompleted(s, c, t) * 100, Max(InsertTotal(t), 1))
    ELSE s

\* lines 150-175: no row for (u, d): the new row, appended
InsertRow(frame, u, d, s, c, t) ==
    Append(frame, Row(u, d, InsertScore(s, c, t), InsertCompleted(s, c, t), InsertTotal(t)))

\* UpdateRow, had it re-derived the score of an existing row from the counts
UpdateRowDerive(frame, u, d, s, c, t) ==
    LET idx == SetMin(MaskIndex(frame, u, d))
        old == frame[idx]
        nc == IF c # None THEN c[1] ELSE old.completed
        nt == IF t # None THEN t[1] ELSE old.total
    IN  [frame EXCEPT ![idx] =
            Row(old.user_id, old.date,
                IF s # None THEN s ELSE Frac(nc * 100, Max(nt, 1)), nc, nt)]

\* lines 143-149: the first row of (u, d) gets the fields that were supplied
UpdateRow(frame, u, d, s, c, t) ==
    LET idx == SetMin(MaskIndex(frame, u, d))
        old == frame[idx]
    IN  [frame EXCEPT ![idx] =
            Row(old.user_id, old.date,
                IF s # None THEN s ELSE old.score,
                IF c # None THEN c[1] ELSE old.completed,
                IF t # None THEN t[1] ELSE old.total)]

\* update_today, had it appended a row without looking for an existing one
update_today_append(frame, u, d, s, c, t) == InsertRow(frame, u, d, s, c, t)

\* lines 140-175: the frame update_today saves, from the frame it loaded
update_today(frame, u, d, s, c, t) ==
    IF MaskIndex(frame, u, d) # {}
    THEN UpdateRow(frame, u, d, s, c, t)
    ELSE InsertRow(frame, u, d, s, c, t)

-----------------------------------------------------------------------------
(* _ensure_user_history: the backfill of the read path *)

\* what np.random draws for one synthetic day: <<score, total_tasks>>;
\* score = int(np.clip(base + noise, 35, 95)), total_tasks = np.random.randint(4, 10)
SynthScores == {35, 95}
SynthTotals == {4}
SynthDraws == SynthScores \X SynthTotals

\* lines 106-114: the synthetic row of one day
SyntheticRow(u, d, draw) ==
    Row(u, d, Float(draw[1]), Round(draw[1] * draw[2], 100), draw[2])

\* line 81: the dates the user already has
ExistingDates(frame, u) == {frame[i].date : i \in {j \in 1..Len(frame) : frame[j].user_id = u}}

\* MissingDates, had the loop not skipped i = 0
MissingDatesWithToday(frame, u, tdy) ==
    SelectSeq([i \in 1..days |-> tdy - (i - 1)], LAMBDA d : d \notin ExistingDates(frame, u))

\* lines 86-95: the days of the loop that get a synthetic row, in loop order
\* (i = 0 is today and is skipped)
MissingDates(frame, u, tdy) ==
    SelectSeq([i \in 1..(days - 1) |-> tdy - i], LAMBDA d : d \notin ExistingDates(frame, u))

\* lines 83-114: synthetic_rows, given the random draw of each day
SyntheticRows(frame, u, tdy, draw) ==
    LET miss == MissingDates(frame, u, tdy)
    IN  [i \in 1..Len(miss) |-> SyntheticRow(u, miss[i], draw[miss[i]])]

\* line 117: pd.concat([df, pd.DataFrame(synthetic_rows)])
ensure_user_history(frame, u, tdy, draw) == frame \o SyntheticRows(frame, u, tdy, draw)

-----------------------------------------------------------------------------
(* _prepare_series, get_trend_data and the streak of get_prediction_summary *)

\* UserRows, had line 259 kept the rows of every user
EveryRow(frame, u) == frame

\* line 259: df[df["user_id"] == user_id]
UserRows(frame, u) == SelectSeq(frame, LAMBDA r : r.user_id = u)

\* df.sort_values("date"), as a stable insertion sort
RECURSIVE SortByDate(_)
SortByDate(rows) ==
    IF Len(rows) <= 1 THEN rows
    ELSE LET last == rows[Len(rows)]
             init == SortByDate(SubSeq(rows, 1, Len(rows) - 1))
             le == SelectSeq(init, LAMBDA r : r.date <= last.date)
             gt == SelectSeq(init, LAMBDA r : r.date > last.date)
         IN  le \o <<last>> \o gt

\* lines 258-265
prepare_series(frame, u) == SortByDate(UserRows(frame, u))

\* Tail_n, had the window been taken from the oldest records
Head_n(rows, n) == IF Len(rows) <= n THEN rows ELSE SubSeq(rows, 1, n)

\* df.tail(n)
Tail_n(rows, n) == IF Len(rows) <= n THEN rows ELSE SubSeq(rows, Len(rows) - n + 1, Len(rows))

\* lines 281, 294/316: history_scores
HistoryScores(series) ==
    LET h == Tail_n(series, history_days)
    IN  [i \in 1..Len(h) |-> Round(h[i].score[1], h[i].score[2])]

\* lines 291, 309-310: the model is fitted unless the history is sparse
ModelFitted(series) == Len(Tail_n(series, history_days)) >= MinFitPoints

\* lines 394-401: consecutive rows, most recent backwards, with score > 0
RECURSIVE CurrentStreak(_)
CurrentStreak(series) ==
    IF Len(series) = 0 THEN 0
    ELSE IF series[Len(series)].score[1] > 0
         THEN 1 + CurrentStreak(SubSeq(series, 1, Len(series) - 1))
         ELSE 0

\* line 288: y, the stored scores of the history rows
Targets(h) == [i \in 1..Len(h) |-> h[i].score]

\* lines 293, 315: history_dates (isoformat keeps the order and the distance of
\* dates; a date stays its day number)
HistoryDates(h) == [i \in 1..Len(h) |-> h[i].date]

\* lines 294, 316: history_scores = [round(float(s)) for s in y]
RoundedScores(h) == [i \in 1..Len(h) |-> Round(h[i].score[1], h[i].score[2])]

\* lines 299-301, 322-325: last_date + timedelta(days=i) for i = 1..horizon
ForecastDates(h, hz) == [i \in 1..hz |-> h[Len(h)].date + i]

\* SparseForecast, had it repeated the last score instead of the mean
SparseForecastLast(y, hz) == [i \in 1..hz |-> Round(y[Len(y)][1], y[Len(y)][2])]

\* lines 298-302: round(mean(y)), horizon times
SparseForecast(y, hz) ==
    LET s == SumScores(y)
    IN  [i \in 1..hz |-> Round(s[1], s[2] * Len(y))]

\* the least and the greatest of the targets
MinScore(y) == CHOOSE a \in {y[i] : i \in 1..Len(y)} : \A i \in 1..Len(y) : ~Less(y[i], a)
MaxScore(y) == CHOOSE a \in {y[i] : i \in 1..Len(y)} : \A i \in 1..Len(y) : ~Less(a, y[i])

\* lines 309-310, 326: what model.predict returns for the horizon days.  Every
\* tree of the forest predicts a mean of training targets, so a prediction
\* lies between min(y) and max(y); the model takes each day's prediction at
\* one of the two ends.  Without a fit (sparse history) there is none.
RawPredictions(y, hz) ==
    IF Len(y) < MinFitPoints THEN {<< >>}
    ELSE LET lo == MinScore(y)
             hi == MaxScore(y)
         IN  {[i \in 1..hz |-> lo], [i \in 1..hz |-> hi],
              [i \in 1..hz |-> IF i % 2 = 1 THEN lo ELSE hi]}

\* ClipRound, had the prediction been scaled to a percentage before rounding
ClipRoundPercent(p) == Round(p[1] * 100, p[2])

\* line 327: int(round(np.clip(pred, 0, 100))), for pred >= 0
ClipRound(p) == IF Less(Float(100), p) THEN 100 ELSE Round(p[1], p[2])

\* lines 320-327: forecast_scores of the fitted model
FittedForecast(pred) == [i \in 1..Len(pred) |-> ClipRound(pred[i])]

-----------------------------------------------------------------------------
(* get_prediction_summary: what it derives from the trend *)

\* line 404: int(np.clip(tomorrow_score, 0, 100))
ContinueProbability(fc) == Max(0, Min(100, fc[1]))

\* line 407: the number of forecast days with a score >= 70
ExpectedDuration(fc) == Cardinality({i \in 1..Len(fc) : fc[i] >= 70})

\* lines 410-411: int(np.clip(mean(history_scores), 0, 100))
StreakHealth(hs) == Max(0, Min(100, SumInts(hs) \div Len(hs)))

\* n^2 times the population variance of the history scores: n*sum(x^2) - sum(x)^2
VarTimesN2(hs) ==
    Len(hs) * SumInts([i \in 1..Len(hs) |-> hs[i] * hs[i]]) - SumInts(hs) * SumInts(hs)

\* WorkloadLabel, had line 426 looked at the average only
WorkloadLabelByMean(hs) ==
    IF SumInts(hs) > 82 * Len(hs) THEN "overwork"
    ELSE IF SumInts(hs) < 55 * Len(hs) THEN "underwork"
    ELSE "balanced"

\* lines 424-434: avg > 82 and std < 8, avg < 55, otherwise
WorkloadLabel(hs) ==
    LET n == Len(hs)
    IN  IF SumInts(hs) > 82 * n /\ VarTimesN2(hs) < 64 * n * n THEN "overwork"
        ELSE IF SumInts(hs) < 55 * n THEN "underwork"
        ELSE "balanced"

\* Confidence, had line 440 not clipped 1 - std/100
ConfidenceUnclipped(hs) ==
    LET n == Len(hs)
        v == VarTimesN2(hs)
    IN  IF v = 0 THEN 90
        ELSE CHOOSE k \in 0..100 :
                /\ (k < 100 => 4 * v > (199 - 2 * k) * (199 - 2 * k) * n * n)
                /\ (k > 0 => 4 * v <= (201 - 2 * k) * (201 - 2 * k) * n * n)

\* lines 437-440 and 476: round(confidence, 2), in hundredths: 0.9 when std is
\* 0, else 1 - std/100 clipped to [0.5, 0.95]; with std = sqrt(v)/n, the
\* hundredth k is the one with 100.5 - k >= std > 99.5 - k (a value half way
\* between two hundredths goes to the upper one)
Confidence(hs) ==
    LET n == Len(hs)
        v == VarTimesN2(hs)
    IN  IF v = 0 THEN 90
        ELSE CHOOSE k \in 50..95 :
                /\ (k < 95 => 4 * v > (199 - 2 * k) * (199 - 2 * k) * n * n)
                /\ (k > 50 => 4 * v <= (201 - 2 * k) * (201 - 2 * k) * n * n)

\* lines 455-462
FocusArea(label, duration) ==
    IF label = "overwork" THEN "recovery"
    ELSE IF label = "underwork" THEN "execution"
    ELSE IF duration >= 5 THEN "stretch-goals"
    ELSE "consistency"

\* helpers.py calculate_trend, lines 25-47, and the branch of the modifiers
\* list in generate_ai_message, lines 96-119
TrendModifier(current, previous) ==
    IF previous = 0 THEN "stable"
    ELSE IF 100 * (current - previous) > 10 * previous THEN "up-fast"
    ELSE IF 100 * (current - previous) > 5 * previous THEN "up"
    ELSE IF 100 * (current - previous) < -5 * previous THEN "down"
    ELSE "stable"

\* helpers.py generate_ai_message, lines 63-93: the list of base messages
ScoreBand(score) ==
    IF score >= 90 THEN 90 ELSE IF score >= 80 THEN 80 ELSE IF score >= 70 THEN 70
    ELSE IF score >= 60 THEN 60 ELSE 0

\* helpers.py lines 122-133: focus_ratio is 0.8, so the only insight is that of
\* task_efficiency = clip(avg, 0, 100)
Insight(hs) ==
    IF SumInts(hs) < 70 * Len(hs) THEN "break-down"
    ELSE IF SumInts(hs) > 95 * Len(hs) THEN "outstanding"
    ELSE "keep-up"

\* lines 450-453 and helpers.py lines 63-140: what determines the message: the
\* list of base messages, the list of modifiers and the insight (the text is
\* random.choice of the three base messages and of the three modifiers of
\* these lists, lines 136-137)
Recommendation(hs) ==
    <<ScoreBand(hs[Len(hs)]),
      TrendModifier(hs[Len(hs)], IF Len(hs) > 1 THEN hs[Len(hs) - 1] ELSE hs[Len(hs)]),
      Insight(hs)>>

-----------------------------------------------------------------------------
(* models/attendance_models: the AttendancePredictor of predict_attendance.py
   and its three sub-predictors (lr_model.py, prophet_model.py,
   lstm_model.py).  A probability is a whole number of thousandths, or the
   rational <<numerator, denominator>> of thousandths before it is rounded; an
   attendance value is 1000 (present), 500 (half-day) or 0 (absent). *)

\* predict_attendance.py lines 12-14
SubPredictors == {"lr_model", "prophet_model", "lstm_model"}

\* what predict returns without a usable model
FallbackProbability == 750
ProphetDefault == 800
\* the days argument of AttendanceProphet.predict
prophet_days == 7
\* the records calculate_streak_forecast looks at
StreakWindow == 14
\* from this probability on the expected continuation is ClampedDays (tenths of a day)
ClampFrom == 990
ClampedDays == 100
\* rows that train needs: lag_30 leaves the first MaxLag rows without features
MaxLag == 30
MinTrainRows == 10
ProphetMinRows == 30
sequence_length == 30
LSTMExtraRows == 10

\* bounds: the rows before the most recent ones, and the longest run of present days
LongPrefix == 30
MaxRun == 15

\* attendance_generated.csv as the server finds it: k present days, a day
\* marked b (0 absent, 1 present, 2 half-day), r present days; in date order
\* or newest first
AttendanceFile(k, b, r, rev) ==
    LET rows == [i \in 1..(k + 1 + r) |->
                    [date |-> i, attendance |-> IF i = k + 1 THEN b ELSE 1]]
    IN  IF rev THEN Reverse(rows) ELSE rows

RunLengths == {0, 1, StreakWindow, MaxRun}

AttendanceFiles ==
    {AttendanceFile(k, b, r, rev) :
        k \in {0, LongPrefix}, b \in {0, 1, 2}, r \in RunLengths, rev \in BOOLEAN}

\* load_data lines 29-34
convert(a) == IF a = 1 THEN 1000 ELSE IF a = 2 THEN 500 ELSE 0

\* df.sort_values('date'): a row moves behind the rows of an earlier date and
\* the earlier rows of its own date
sort_values(rows) ==
    LET before(j) == {k \in 1..Len(rows) : \/ rows[k].date < rows[j].date
                                           \/ rows[k].date = rows[j].date /\ k < j}
        place == << >> \o [j \in 1..Len(rows) |-> Cardinality(before(j)) + 1]
    IN  [i \in 1..Len(rows) |-> rows[CHOOSE j \in 1..Len(rows) : place[j] = i]]

\* load_data lines 23-39: the rows in date order, attendance converted
load_data(csv) ==
    LET sorted == sort_values(csv)
    IN  [i \in 1..Len(sorted) |->
            [date |-> sorted[i].date, attendance |-> convert(sorted[i].attendance)]]

\* max(0, min(1, prediction))
Clip(x) == Max(0, Min(1000, x))

\* what a model computes before it is clipped
LRRaw == {-20, 900, 909, 989, 990, 1100}
LSTMRaw == {-5, 850, 1003}
ProphetRaw ==
    {[i \in 1..prophet_days |-> 800], [i \in 1..prophet_days |-> 1100 - 200 * (i - 1)]}

\* a sub-predictor after __init__, and the three of them
NoModel == [model |-> "None", is_trained |-> FALSE, fit_raised |-> FALSE]
NoPredictor == [m \in SubPredictors |-> NoModel]

\* train of a sub-predictor has too few rows: lr_model.py lines 45 and 64,
\* prophet_model.py line 28, lstm_model.py line 45
Insufficient(m, data) ==
    IF m = "lr_model" THEN Max(0, Len(data) - MaxLag) < MinTrainRows
    ELSE IF m = "prophet_model" THEN Len(data) < ProphetMinRows
    ELSE Len(data) < sequence_length + LSTMExtraRows

\* the ways a train call ends
TrainOutcomes(m, data) ==
    IF Insufficient(m, data) THEN {"insufficient"} ELSE {"fit_raises", "trained"}

\* train (lr_model.py lines 59-90, prophet_model.py lines 25-61, lstm_model.py
\* lines 42-85): the sub-predictor it leaves.  The new estimator is assigned to
\* self.model before fit; is_trained is set after the model file is written.
train(sub, outcome) ==
    IF outcome = "insufficient" THEN [sub EXCEPT !.fit_raised = FALSE]
    ELSE IF outcome = "fit_raises" THEN [sub EXCEPT !.model = "unfitted", !.fit_raised = TRUE]
    ELSE [model |-> "fitted", is_trained |-> TRUE, fit_raised |-> FALSE]

\* load_model: the file is read when it exists; joblib.load of a file that an
\* interrupted dump left raises
LoadRaises(m) == ~predictor[m].is_trained /\ trained_models[m] = "unreadable"

\* predict lines "if not self.is_trained: self.load_model()"
load_model(m) ==
    IF ~predictor[m].is_trained /\ trained_models[m] = "saved"
    THEN [predictor[m] EXCEPT !.model = "fitted", !.is_trained = TRUE]
    ELSE predictor[m]

\* AttendanceLinearRegression.predict lines 97-120: the probabilities it can
\* return, and whether each is the fallback.  The features of the last row
\* hold NaN when the frame has no more than MaxLag rows; predict of an
\* estimator that was never fitted raises.
LRPredictions(model, data) ==
    {[value |-> FallbackProbability, fellback |-> TRUE]} \cup
    (IF model = "fitted" /\ Len(data) > MaxLag
     THEN {[value |-> Clip(x), fellback |-> FALSE] : x \in LRRaw} ELSE {})

\* prophet_model.py lines 70 and 96
ProphetDefaults == [i \in 1..prophet_days |-> ProphetDefault]

\* AttendanceProphet.predict lines 68-96
ProphetPredictions(model) ==
    {[value |-> ProphetDefaults, fellback |-> TRUE]} \cup
    (IF model = "fitted"
     THEN {[value |-> [i \in 1..prophet_days |-> Clip(f[i])], fellback |-> FALSE] :
              f \in ProphetRaw}
     ELSE {})

\* AttendanceLSTM.predict lines 92-123: a network that was built but whose fit
\* raised predicts from its initial weights
LSTMPredictions(model) ==
    {[value |-> FallbackProbability, fellback |-> TRUE]} \cup
    (IF model # "None"
     THEN {[value |-> Clip(x), fellback |-> FALSE] : x \in LSTMRaw} ELSE {})

\* calculate_streak_forecast lines 149-154, over the records it is given:
\* the loop counts from the last record back to the first that is not 1
TrailingPresent(recent) ==
    LET breaks == {i \in 1..Len(recent) : recent[i].attendance # 1000}
    IN  IF breaks = {} THEN Len(recent)
        ELSE Len(recent) - (CHOOSE i \in breaks : \A j \in breaks : j <= i)

\* expected_more_days, had the clamp of line 162 applied to p = 1 only
expected_more_days_at_one(p) ==
    IF p >= 1000 THEN ClampedDays ELSE Round(10 * p, 1000 - p)

\* lines 161-165, in tenths of a day: 10 when p >= 0.99, else round(p / (1 - p), 1)
expected_more_days(p) ==
    IF p >= ClampFrom THEN ClampedDays ELSE Round(10 * p, 1000 - p)

\* calculate_streak_forecast, had line 146 passed every record
streak_forecast_unwindowed(data, tomorrow_pred) ==
    [current_streak |-> TrailingPresent(data),
     probability_continue |-> Round(tomorrow_pred * 100 * 10, 1000),
     expected_end_in |-> expected_more_days(tomorrow_pred)]

\* lines 137-171; probability_continue in tenths of a percent: round(p * 100, 1)
calculate_streak_forecast(data, tomorrow_pred) ==
    [current_streak |-> TrailingPresent(Tail_n(data, StreakWindow)),
     probability_continue |-> Round(tomorrow_pred * 100 * 10, 1000),
     expected_end_in |-> expected_more_days(tomorrow_pred)]

\* calculate_absence_likelihood, had line 176 averaged two of the predictions
absence_likelihood_of_two(lr_pred, lstm_pred, prophet_pred) ==
    LET avg_pred == Frac(lr_pred + lstm_pred, 2)
    IN  Frac(1000 * avg_pred[2] - avg_pred[1], avg_pred[2])

\* lines 174-178: 1 - (lr_pred + lstm_pred + prophet_pred) / 3
calculate_absence_likelihood(lr_pred, lstm_pred, prophet_pred) ==
    LET avg_pred == Frac(lr_pred + lstm_pred + prophet_pred, 3)
    IN  Frac(1000 * avg_pred[2] - avg_pred[1], avg_pred[2])

\* round(x, 3) of a rational number of thousandths
round3(x) == Round(x[1], x[2])

\* the attendance handler: its frame and its result
NoAtt ==
    [pc |-> "idle", name |-> "none", data |-> << >>, lr_pred |-> 0,
     prophet_preds |-> << >>, lstm_pred |-> 0, fellback |-> {}, ret |-> << >>,
     calls |-> 0]

\* lines 126-135: the dictionary predict_all returns (forecast_plot left out)
predict_all_result(data, lr_pred, prophet_preds, lstm_pred) ==
    [lr_prediction |-> round3(Float(lr_pred)),
     prophet_prediction |-> round3(Float(prophet_preds[1])),
     lstm_prediction |-> round3(Float(lstm_pred)),
     next_week_forecast |-> [i \in 1..Len(prophet_preds) |-> round3(Float(prophet_preds[i]))],
     streak_prediction |-> calculate_streak_forecast(data, lr_pred),
     absence_likelihood |->
         round3(calculate_absence_likelihood(lr_pred, lstm_pred, prophet_preds[1])),
     average_prediction |-> round3(Frac(lr_pred + lstm_pred + prophet_preds[1], 3))]

\* the attendance predictor as the import of predict_attendance.py leaves it
\* (line 221), no model file written yet
AttendanceIdle ==
    /\ predictor = NoPredictor
    /\ trained_models = [m \in SubPredictors |-> "absent"]
    /\ att = NoAtt

\* a caller invokes train_all_models: line 97 loads the data
CallTrainAll ==
    /\ att.pc = "idle"
    /\ att.calls < MaxCalls
    /\ \E csv \in AttendanceFiles :
          att' = [NoAtt EXCEPT !.pc = "train_lr", !.name = "train_all_models",
                               !.data = load_data(csv), !.calls = att.calls + 1,
                               !.ret = [lr_trained |-> FALSE, prophet_trained |-> FALSE,
                                        lstm_trained |-> FALSE]]
    /\ UNCHANGED <<predictor, trained_models>>
    /\ UNCHANGED <<fvars, svars>>

\* one train call of train_all_models: the sub-predictor and the model file
\* it leaves, and its entry in the results
TrainSub(m, key, next) ==
    \E outcome \in TrainOutcomes(m, att.data) :
        /\ predictor' = [predictor EXCEPT ![m] = train(predictor[m], outcome)]
        /\ trained_models' = IF outcome = "trained"
                             THEN [trained_models EXCEPT ![m] = "saved"]
                             ELSE trained_models
        /\ att' = [att EXCEPT !.pc = next, !.ret[key] = (outcome = "trained")]

\* line 100
TrainLR ==
    /\ att.pc = "train_lr"
    /\ TrainSub("lr_model", "lr_trained", "train_prophet")
    /\ UNCHANGED <<fvars, svars>>

\* line 101
TrainProphet ==
    /\ att.pc = "train_prophet"
    /\ TrainSub("prophet_model", "prophet_trained", "train_lstm")
    /\ UNCHANGED <<fvars, svars>>

\* lines 102-105
TrainLSTM ==
    /\ att.pc = "train_lstm"
    /\ TrainSub("lstm_model", "lstm_trained", "done")
    /\ UNCHANGED <<fvars, svars>>

\* a caller invokes predict_all: line 109 loads the data
CallPredictAll ==
    /\ att.pc = "idle"
    /\ att.calls < MaxCalls
    /\ \E csv \in AttendanceFiles :
          att' = [NoAtt EXCEPT !.pc = "predict_lr", !.name = "predict_all",
                               !.data = load_data(csv), !.calls = att.calls + 1]
    /\ UNCHANGED <<predictor, trained_models>>
    /\ UNCHANGED <<fvars, svars>>

\* line 112: lr_model.predict; an exception of load_model leaves predict_all
PredictLR ==
    /\ att.pc = "predict_lr"
    /\ IF LoadRaises("lr_model")
       THEN /\ att' = [att EXCEPT !.pc = "raised"]
            /\ predictor' = predictor
       ELSE /\ predictor' = [predictor EXCEPT !["lr_model"] = load_model("lr_model")]
            /\ \E out \in LRPredictions(load_model("lr_model").model, att.data) :
                  att' = [att EXCEPT !.pc = "predict_prophet", !.lr_pred = out.value,
                                     !.fellback = IF out.fellback
                                                  THEN @ \cup {"lr_model"} ELSE @]
    /\ UNCHANGED trained_models
    /\ UNCHANGED <<fvars, svars>>

\* line 115: prophet_model.predict(df, days=7)
PredictProphet ==
    /\ att.pc = "predict_prophet"
    /\ IF LoadRaises("prophet_model")
       THEN /\ att' = [att EXCEPT !.pc = "raised"]
            /\ predictor' = predictor
       ELSE /\ predictor' = [predictor EXCEPT !["prophet_model"] = load_model("prophet_model")]
            /\ \E out \in ProphetPredictions(load_model("prophet_model").model) :
                  att' = [att EXCEPT !.pc = "predict_lstm", !.prophet_preds = out.value,
                                     !.fellback = IF out.fellback
                                                  THEN @ \cup {"prophet_model"} ELSE @]
    /\ UNCHANGED trained_models
    /\ UNCHANGED <<fvars, svars>>

\* line 118: lstm_model.predict
PredictLSTM ==
    /\ att.pc = "predict_lstm"
    /\ IF LoadRaises("lstm_model")
       THEN /\ att' = [att EXCEPT !.pc = "raised"]
            /\ predictor' = predictor
       ELSE /\ predictor' = [predictor EXCEPT !["lstm_model"] = load_model("lstm_model")]
            /\ \E out \in LSTMPredictions(load_model("lstm_model").model) :
                  att' = [att EXCEPT !.pc = "assemble", !.lstm_pred = out.value,
                                     !.fellback = IF out.fellback
                                                  THEN @ \cup {"lstm_model"} ELSE @]
    /\ UNCHANGED trained_models
    /\ UNCHANGED <<fvars, svars>>

\* lines 121-135: the streak forecast, the absence likelihood, the result
PredictAllReturn ==
    /\ att.pc = "assemble"
    /\ att' = [att EXCEPT !.pc = "done",
                          !.ret = predict_all_result(att.data, att.lr_pred,
                                                     att.prophet_preds, att.lstm_pred)]
    /\ UNCHANGED <<predictor, trained_models>>
    /\ UNCHANGED <<fvars, svars>>

\* the call has returned or raised
AttReturn ==
    /\ att.pc \in {"done", "raised"}
    /\ att' = [NoAtt EXCEPT !.calls = att.calls]
    /\ UNCHANGED <<predictor, trained_models>>
    /\ UNCHANGED <<fvars, svars>>

-----------------------------------------------------------------------------
(* routes/predictions_api.py: prediction_store.json and update_section.  The
   date entry that save_store stamps is left out. *)

\* the sections of DEFAULT_TEMPLATE and the keys the callers set in them
StoreKeys ==
    [attendance |-> {"prediction", "absence_likelihood"},
     task |-> {"task_prediction"},
     productivity |-> {"score_today"}]

\* lines 14-32: every such entry is "" in the template
DEFAULT_TEMPLATE == [s \in DOMAIN StoreKeys |-> [k \in StoreKeys[s] |-> ""]]

\* the values the callers store
StoreValues == {"High", "Low"}

\* update_section lines 64-72, on the dictionary that load_store returned
update_section(data, section, key, value) ==
    LET d == IF section \in DOMAIN data THEN data
             ELSE [s \in DOMAIN data \cup {section} |->
                      IF s = section THEN DEFAULT_TEMPLATE[section] ELSE data[s]]
    IN  IF key = None THEN [d EXCEPT ![section] = value]
        ELSE [d EXCEPT ![section] =
                 [k \in DOMAIN d[section] \cup {key[1]} |->
                     IF k = key[1] THEN value ELSE d[section][k]]]

NoUpd == [pc |-> "idle", section |-> "", key |-> None, value |-> "", data |-> << >>, calls |-> 0]

\* lines 37-45: the file exists with the template once _ensure_file has run
StoreIdle ==
    /\ prediction_store = DEFAULT_TEMPLATE
    /\ lock = 0
    /\ upd = [t \in Threads |-> NoUpd]

\* a caller posts to /api/predictions/update (lines 92-100)
CallUpdateSection(t) ==
    /\ upd[t].pc = "idle"
    /\ upd[t].calls < MaxCalls
    /\ \E s \in DOMAIN StoreKeys :
         \E k \in StoreKeys[s], v \in StoreValues :
            upd' = [upd EXCEPT ![t] = [NoUpd EXCEPT !.pc = "load", !.section = s,
                                                     !.key = Some(k), !.value = v,
                                                     !.calls = upd[t].calls + 1]]
    /\ UNCHANGED <<prediction_store, lock>>
    /\ UNCHANGED <<fvars, avars>>

\* "with _lock:" of load_store (line 50) and of save_store (line 58)
Acquire(t) ==
    /\ upd[t].pc \in {"load", "save"}
    /\ lock = 0
    /\ lock' = t
    /\ upd' = [upd EXCEPT ![t].pc = IF upd[t].pc = "load" THEN "loading" ELSE "saving"]
    /\ UNCHANGED prediction_store
    /\ UNCHANGED <<fvars, avars>>

\* load_store lines 51-52 under the lock, the lock released on return, and
\* update_section lines 64-72 on the dictionary returned
LoadStore(t) ==
    /\ upd[t].pc = "loading"
    /\ lock = t
    /\ upd' = [upd EXCEPT ![t].pc = "save",
                          ![t].data = update_section(prediction_store, upd[t].section,
                                                     upd[t].key, upd[t].value)]
    /\ lock' = 0
    /\ UNCHANGED prediction_store
    /\ UNCHANGED <<fvars, avars>>

\* save_store lines 59-60 under the lock, the lock released on return
SaveStore(t) ==
    /\ upd[t].pc = "saving"
    /\ lock = t
    /\ prediction_store' = upd[t].data
    /\ lock' = 0
    /\ upd' = [upd EXCEPT ![t].pc = "done"]
    /\ UNCHANGED <<fvars, avars>>

\* update_section line 75 returns; the thread is free for the next request
UpdateSectionReturn(t) ==
    /\ upd[t].pc = "done"
    /\ upd' = [upd EXCEPT ![t] = [NoUpd EXCEPT !.calls = upd[t].calls]]
    /\ UNCHANGED <<prediction_store, lock>>
    /\ UNCHANGED <<fvars, avars>>

-----------------------------------------------------------------------------
(* The state machine *)

\* the arguments the callers supply: <<today_score, completed, total>>, each
\* optional; where both counts are supplied, completed <= total
CallArgs ==
    {<<None, None, None>>, <<None, Some(8), Some(10)>>, <<None, Some(0), Some(0)>>,
     <<Float(50), None, None>>, <<None, Some(8), None>>, <<None, None, Some(10)>>,
     <<Float(50), Some(8), Some(10)>>}

\* the arguments of get_prediction_summary: today's data is optional
SummaryArgs == {<<None, None, None>>, <<Float(50), None, None>>}

\* a table left by earlier days of use: real rows of user 1
SeedFile ==
    << <<1, -4, Float(60), 12, 20>>, <<1, -3, Float(65), 13, 20>>,
       <<1, -2, Float(70), 14, 20>>, <<1, -1, Float(75), 15, 20>> >>

NoOp ==
    [name |-> "none", user |-> 0, score |-> None, completed |-> None, total |-> None,
     history_days |-> 0, horizon |-> 0,
     date |-> 0, stage |-> 0, nsyn |-> 0, had |-> FALSE, existed |-> FALSE,
     upserted |-> FALSE, fresh |-> FALSE]

NoRet ==
    [name |-> "none", user |-> 0, history |-> <<>>, history_dates |-> <<>>,
     forecast |-> <<>>, forecast_dates |-> <<>>, fitted |-> FALSE,
     insufficient |-> FALSE, streak |-> 0,
     tomorrow_score |-> None, next_7_days |-> <<>>, continue_probability |-> 0,
     expected_duration |-> 0, health |-> 0, workload |-> "none", focus_area |-> "none",
     confidence |-> 0, recommendation |-> <<>>]

\* the call frame; history_days and horizon are those of get_trend_data (the
\* defaults of line 268, which line 361 passes too)
NewOp(n, u, s, c, t) ==
    [NoOp EXCEPT !.name = n, !.user = u, !.score = s, !.completed = c, !.total = t,
                 !.history_days = history_days, !.horizon = horizon,
                 !.stage = 1, !.had = (u \in served)]

\* lines 29-39: the constructor leaves an existing file alone and creates an empty one otherwise
Init ==
    /\ file \in {<< >>, SeedFile}
    /\ disk = "ok"
    /\ today = 0
    /\ pc = [t \in Threads |-> "idle"]
    /\ op = [t \in Threads |-> NoOp]
    /\ df = [t \in Threads |-> << >>]
    /\ ret = [t \in Threads |-> NoRet]
    /\ served = {}
    /\ written = {}
    /\ ncalls = 0
    /\ AttendanceIdle
    /\ StoreIdle

\* a write to the series: every summary served before it is older than the series
AfterWrite(sv) == {}

\* AnySupplied, had line 352 looked at the counts only
AnySuppliedCounts(s, c, t) == c # None \/ t # None

\* line 352: today's data was received
AnySupplied(s, c, t) == s # None \/ c # None \/ t # None

\* a caller invokes update_today(user_id, today_score, completed, total)
CallUpdateToday(t) ==
    /\ pc[t] = "idle"
    /\ ncalls < MaxCalls
    /\ \E u \in Users, a \in CallArgs :
          op' = [op EXCEPT ![t] = NewOp("update_today", u, a[1], a[2], a[3])]
    /\ pc' = [pc EXCEPT ![t] = "ut_load"]
    /\ ncalls' = ncalls + 1
    /\ UNCHANGED <<file, disk, today, df, ret, served, written>>
    /\ UNCHANGED <<avars, svars>>

\* a caller invokes get_trend_data(user_id, 30, 7): line 273 enters _prepare_series
CallGetTrend(t) ==
    /\ pc[t] = "idle"
    /\ ncalls < MaxCalls
    /\ \E u \in Users :
          op' = [op EXCEPT ![t] =
                    [NewOp("get_trend_data", u, None, None, None)
                        EXCEPT !.fresh = (UserRows(LoadedFrame, u) = << >>)]]
    /\ pc' = [pc EXCEPT ![t] = "eh_load"]
    /\ ncalls' = ncalls + 1
    /\ UNCHANGED <<file, disk, today, df, ret, served, written>>
    /\ UNCHANGED <<avars, svars>>

\* a caller invokes get_prediction_summary: lines 351-361
CallSummary(t) ==
    /\ pc[t] = "idle"
    /\ ncalls < MaxCalls
    /\ \E u \in Users, a \in SummaryArgs :
          /\ op' = [op EXCEPT ![t] = NewOp("get_prediction_summary", u, a[1], a[2], a[3])]
          /\ pc' = [pc EXCEPT ![t] =
                       IF AnySupplied(a[1], a[2], a[3]) THEN "ut_load" ELSE "eh_load"]
    /\ ncalls' = ncalls + 1
    /\ UNCHANGED <<file, disk, today, df, ret, served, written>>
    /\ UNCHANGED <<avars, svars>>

\* update_today, lines 137-175: load the table, read the date, upsert in the frame
UTLoad(t) ==
    /\ pc[t] = "ut_load"
    /\ LoadReturns
    /\ df' = [df EXCEPT ![t] =
                 update_today(LoadedFrame, op[t].user, today,
                              op[t].score, op[t].completed, op[t].total)]
    /\ op' = [op EXCEPT ![t].date = today,
                         ![t].existed = (MaskIndex(LoadedFrame, op[t].user, today) # {})]
    /\ pc' = [pc EXCEPT ![t] = "ut_save"]
    /\ file' = LoadedFile
    /\ disk' = "ok"
    /\ UNCHANGED <<today, ret, served, written, ncalls>>
    /\ UNCHANGED <<avars, svars>>

\* update_today, line 177: persist the frame; update_today returns None
UTSave(t) ==
    /\ pc[t] = "ut_save"
    /\ disk # "denied"
    /\ file' = save_daily_data(df[t])
    /\ disk' = "ok"
    /\ df' = [df EXCEPT ![t] = << >>]
    /\ op' = [op EXCEPT ![t].upserted = TRUE]
    /\ written' = written \cup {<<op[t].user, op[t].date>>}
    /\ served' = AfterWrite(served)
    /\ IF op[t].name = "update_today"
       THEN /\ pc' = [pc EXCEPT ![t] = "done"]
            /\ ret' = [ret EXCEPT ![t] = [NoRet EXCEPT !.name = "update_today",
                                                        !.user = op[t].user]]
       ELSE /\ pc' = [pc EXCEPT ![t] = "eh_load"]
            /\ ret' = ret
    /\ UNCHANGED <<today, ncalls>>
    /\ UNCHANGED <<avars, svars>>

\* _ensure_user_history, lines 76-117: load, read the date, draw the synthetic rows
EHLoad(t) ==
    /\ pc[t] = "eh_load"
    /\ LoadReturns
    /\ LET frame == LoadedFrame
           miss == MissingDates(frame, op[t].user, today)
           missing == {miss[i] : i \in 1..Len(miss)}
       IN  \E draw \in [missing -> SynthDraws] :
              IF missing # {}
              THEN /\ df' = [df EXCEPT ![t] =
                                ensure_user_history(frame, op[t].user, today, draw)]
                   /\ op' = [op EXCEPT ![t].nsyn = Len(miss)]
                   /\ pc' = [pc EXCEPT ![t] = "eh_save"]
              ELSE /\ df' = df
                   /\ op' = op
                   /\ pc' = [pc EXCEPT ![t] = "ps_load"]
    /\ file' = LoadedFile
    /\ disk' = "ok"
    /\ UNCHANGED <<today, ret, served, written, ncalls>>
    /\ UNCHANGED <<avars, svars>>

\* _ensure_user_history, line 118: persist the frame with the synthetic rows
EHSave(t) ==
    /\ pc[t] = "eh_save"
    /\ disk # "denied"
    /\ file' = save_daily_data(df[t])
    /\ disk' = "ok"
    /\ written' = written \cup
          {<<df[t][i].user_id, df[t][i].date>> :
              i \in (Len(df[t]) - op[t].nsyn + 1)..Len(df[t])}
    /\ served' = AfterWrite(served)
    /\ df' = [df EXCEPT ![t] = << >>]
    /\ op' = [op EXCEPT ![t].nsyn = 0]
    /\ pc' = [pc EXCEPT ![t] = "ps_load"]
    /\ UNCHANGED <<today, ret, ncalls>>
    /\ UNCHANGED <<avars, svars>>

\* lines 274-332: what get_trend_data returns of the prepared series, given
\* the predictions of the fitted model
get_trend_data(n, u, series, hd, hz, pred) ==
    IF Len(series) = 0
    THEN [NoRet EXCEPT !.name = n, !.user = u]
    ELSE LET h == Tail_n(series, hd)
             y == Targets(h)
         IN  [NoRet EXCEPT !.name = n, !.user = u,
                           !.history = RoundedScores(h),
                           !.history_dates = HistoryDates(h),
                           !.fitted = (Len(h) >= MinFitPoints),
                           !.forecast = IF Len(h) < MinFitPoints
                                        THEN SparseForecast(y, hz)
                                        ELSE FittedForecast(pred),
                           !.forecast_dates = ForecastDates(h, hz)]

\* InsufficientSummary, had it reported the confidence of a constant history
InsufficientSummarySure(trend) ==
    [trend EXCEPT !.insufficient = TRUE, !.workload = "unknown",
                  !.focus_area = "consistency", !.confidence = 90]

\* lines 366-382: the summary returned when the trend has no history or no forecast
InsufficientSummary(trend) ==
    [trend EXCEPT !.insufficient = TRUE, !.tomorrow_score = None, !.next_7_days = << >>,
                  !.streak = 0, !.continue_probability = 0, !.expected_duration = 0,
                  !.health = 0, !.workload = "unknown", !.focus_area = "consistency",
                  !.confidence = 50]

\* lines 387-479: the summary returned, from the trend and the series of the
\* second read
Summary(trend, series) ==
    LET hs == trend.history
        fc == trend.forecast
    IN  [trend EXCEPT !.tomorrow_score = Some(fc[1]),
                      !.next_7_days = fc,
                      !.streak = CurrentStreak(series),
                      !.continue_probability = ContinueProbability(fc),
                      !.expected_duration = ExpectedDuration(fc),
                      !.health = StreakHealth(hs),
                      !.workload = WorkloadLabel(hs),
                      !.focus_area = FocusArea(WorkloadLabel(hs), ExpectedDuration(fc)),
                      !.confidence = Confidence(hs),
                      !.recommendation = Recommendation(hs)]

\* PSLoadTrend, had _prepare_series used the frame the thread holds in memory
\* instead of loading the file again
PSLoadTrendStale(t) ==
    /\ pc[t] = "ps_load"
    /\ op[t].stage = 1
    /\ \E series \in {prepare_series(df[t], op[t].user)} :
         \E pred \in RawPredictions(Targets(Tail_n(series, op[t].history_days)),
                                    op[t].horizon) :
           \E trend \in {get_trend_data(op[t].name, op[t].user, series,
                                        op[t].history_days, op[t].horizon, pred)} :
                  IF op[t].name = "get_trend_data"
                  THEN /\ ret' = [ret EXCEPT ![t] = trend]
                       /\ pc' = [pc EXCEPT ![t] = "done"]
                       /\ UNCHANGED <<op, served>>
                  ELSE IF Len(trend.history) = 0 \/ Len(trend.forecast) = 0
                  THEN /\ ret' = [ret EXCEPT ![t] = InsufficientSummary(trend)]
                       /\ pc' = [pc EXCEPT ![t] = "done"]
                       /\ served' = served \cup {op[t].user}
                       /\ op' = op
                  ELSE /\ ret' = [ret EXCEPT ![t] = trend]
                       /\ pc' = [pc EXCEPT ![t] = "eh_load"]
                       /\ op' = [op EXCEPT ![t].stage = 2]
                       /\ served' = served
    /\ UNCHANGED <<file, disk, today, df, written, ncalls>>
    /\ UNCHANGED <<avars, svars>>

\* _prepare_series lines 258-265 and get_trend_data lines 273-332, and for
\* get_prediction_summary lines 361-382: the insufficient-data summary
PSLoadTrend(t) ==
    /\ pc[t] = "ps_load"
    /\ op[t].stage = 1
    /\ LoadReturns
    /\ \E series \in {prepare_series(LoadedFrame, op[t].user)} :
         \E pred \in RawPredictions(Targets(Tail_n(series, op[t].history_days)),
                                    op[t].horizon) :
           \E trend \in {get_trend_data(op[t].name, op[t].user, series,
                                        op[t].history_days, op[t].horizon, pred)} :
                  IF op[t].name = "get_trend_data"
                  THEN /\ ret' = [ret EXCEPT ![t] = trend]
                       /\ pc' = [pc EXCEPT ![t] = "done"]
                       /\ UNCHANGED <<op, served>>
                  ELSE IF Len(trend.history) = 0 \/ Len(trend.forecast) = 0
                  THEN /\ ret' = [ret EXCEPT ![t] = InsufficientSummary(trend)]
                       /\ pc' = [pc EXCEPT ![t] = "done"]
                       /\ served' = served \cup {op[t].user}
                       /\ op' = op
                  ELSE /\ ret' = [ret EXCEPT ![t] = trend]
                       /\ pc' = [pc EXCEPT ![t] = "eh_load"]
                       /\ op' = [op EXCEPT ![t].stage = 2]
                       /\ served' = served
    /\ file' = LoadedFile
    /\ disk' = "ok"
    /\ UNCHANGED <<today, df, written, ncalls>>
    /\ UNCHANGED <<avars, svars>>

\* get_prediction_summary lines 394-479: the second _prepare_series, the streak,
\* and the summary returned
PSLoadStreak(t) ==
    /\ pc[t] = "ps_load"
    /\ op[t].stage = 2
    /\ LoadReturns
    /\ ret' = [ret EXCEPT ![t] = Summary(ret[t], prepare_series(LoadedFrame, op[t].user))]
    /\ pc' = [pc EXCEPT ![t] = "done"]
    /\ served' = served \cup {op[t].user}
    /\ file' = LoadedFile
    /\ disk' = "ok"
    /\ UNCHANGED <<today, op, df, written, ncalls>>
    /\ UNCHANGED <<avars, svars>>

\* the steps of a handler that read or write the file
LoadLabels == {"ut_load", "eh_load", "ps_load"}
SaveLabels == {"ut_save", "eh_save"}

\* the handler ends in an exception: on a "denied" file the to_csv of line 55
\* (in a load) or of line 69 (in a save) raises; after the load of a "foreign"
\* file the caller's df["user_id"] (lines 77, 140, 259) raises KeyError
IORaises(t) ==
    /\ \/ pc[t] \in LoadLabels /\ disk \in {"foreign", "denied"}
       \/ pc[t] \in SaveLabels /\ disk = "denied"
    /\ pc' = [pc EXCEPT ![t] = "raised"]
    /\ df' = [df EXCEPT ![t] = << >>]
    /\ ret' = [ret EXCEPT ![t] = NoRet]
    /\ UNCHANGED <<file, disk, today, op, served, written, ncalls>>
    /\ UNCHANGED <<avars, svars>>

\* the handler has returned or raised; the thread is free for the next request
Return(t) ==
    /\ pc[t] \in {"done", "raised"}
    /\ pc' = [pc EXCEPT ![t] = "idle"]
    /\ op' = [op EXCEPT ![t] = NoOp]
    /\ ret' = [ret EXCEPT ![t] = NoRet]
    /\ UNCHANGED <<file, disk, today, df, served, written, ncalls>>
    /\ UNCHANGED <<avars, svars>>

\* something outside the program removes, overwrites or locks the file
Damage ==
    /\ disk = "ok"
    /\ disk' \in DiskFaults
    /\ file' = << >>
    /\ UNCHANGED <<today, pc, op, df, ret, served, written, ncalls>>
    /\ UNCHANGED <<avars, svars>>

\* midnight (UTC) passes
Tick ==
    /\ today < MaxDay
    /\ today' = today + 1
    /\ UNCHANGED <<file, disk, pc, op, df, ret, served, written, ncalls>>
    /\ UNCHANGED <<avars, svars>>

Step(t) ==
    \/ CallUpdateToday(t)
    \/ CallGetTrend(t)
    \/ CallSummary(t)
    \/ UTLoad(t)
    \/ UTSave(t)
    \/ EHLoad(t)
    \/ EHSave(t)
    \/ PSLoadTrend(t)
    \/ PSLoadStreak(t)
    \/ Return(t)

\* the request threads of the server run the handlers concurrently
Next == Tick \/ \E t \in Threads : Step(t)

Spec == Init /\ [][Next]_vars

\* one request at a time: every handler runs from its call to its return alone
SeqNext == Tick \/ Step(1)

SeqSpec == Init /\ [][SeqNext]_vars

\* one request at a time, on a file that can be damaged between any two steps
FaultNext == Damage \/ IORaises(1) \/ Step(1)

FaultSpec == Init /\ [][FaultNext]_vars

-----------------------------------------------------------------------------
(* get_trend_data and get_prediction_summary from the read on, over the tables
   that the reads of a long-running server can meet: between 0 and MaxSeries
   rows of user 1 on consecutive days up to yesterday, stored in date order or
   in reverse, with or without a row of user 2 *)

\* the longest series of user 1
MaxSeries == 5

\* stored scores: 0, 50, 4/6*100 and 8/6*100
TrendScores == {Float(0), Float(50), <<200, 3>>, <<400, 3>>}

\* the history_days and horizon arguments of get_trend_data
TrendHistoryDays == {2, history_days}
TrendHorizons == {1, horizon}

TrendFile(scores, rev, other) ==
    LET n == Len(scores)
        mine == [i \in 1..n |-> <<1, i - n - 1, scores[i], 4, 6>>]
    IN  (IF other THEN << <<2, -2, Float(80), 8, 10>> >> ELSE << >>)
           \o (IF rev THEN Reverse(mine) ELSE mine)

TrendOps ==
    {[NoOp EXCEPT !.name = "get_trend_data", !.user = u, !.history_days = hd,
                  !.horizon = hz, !.stage = 1] :
        u \in Users, hd \in TrendHistoryDays, hz \in TrendHorizons}
    \cup {[NoOp EXCEPT !.name = "get_prediction_summary", !.user = u,
                       !.history_days = history_days, !.horizon = horizon, !.stage = 1] :
             u \in Users}

\* the handler stands at the load of _prepare_series (line 258)
TrendInit ==
    /\ \E n \in 0..MaxSeries, rev \in BOOLEAN, other \in BOOLEAN :
          \E scores \in [1..n -> TrendScores] : file = TrendFile(scores, rev, other)
    /\ disk = "ok"
    /\ today = 0
    /\ pc = [t \in Threads |-> IF t = 1 THEN "ps_load" ELSE "idle"]
    /\ \E o \in TrendOps : op = [t \in Threads |-> IF t = 1 THEN o ELSE NoOp]
    /\ df = [t \in Threads |-> << >>]
    /\ ret = [t \in Threads |-> NoRet]
    /\ served = {}
    /\ written = {}
    /\ ncalls = 1
    /\ AttendanceIdle
    /\ StoreIdle

TrendNext ==
    \/ PSLoadTrend(1)
    \/ EHLoad(1)
    \/ EHSave(1)
    \/ PSLoadStreak(1)
    \/ Return(1)

TrendSpec == TrendInit /\ [][TrendNext]_vars

-----------------------------------------------------------------------------
(* The attendance predictor alone, over the attendance files and the model
   files an earlier process can have left *)

\* the productivity forecaster with an empty table and no call
ForecasterIdle ==
    /\ file = << >>
    /\ disk = "ok"
    /\ today = 0
    /\ pc = [t \in Threads |-> "idle"]
    /\ op = [t \in Threads |-> NoOp]
    /\ df = [t \in Threads |-> << >>]
    /\ ret = [t \in Threads |-> NoRet]
    /\ served = {}
    /\ written = {}
    /\ ncalls = 0

AttInit ==
    /\ ForecasterIdle
    /\ StoreIdle
    /\ predictor = NoPredictor
    /\ trained_models \in [SubPredictors -> {"absent", "saved", "unreadable"}]
    /\ att = NoAtt

AttNext ==
    \/ CallTrainAll
    \/ TrainLR
    \/ TrainProphet
    \/ TrainLSTM
    \/ CallPredictAll
    \/ PredictLR
    \/ PredictProphet
    \/ PredictLSTM
    \/ PredictAllReturn
    \/ AttReturn

AttSpec == AttInit /\ [][AttNext]_vars

(* update_section of the prediction store, run by the request threads *)

StoreInit == ForecasterIdle /\ AttendanceIdle /\ StoreIdle

StoreStep(t) ==
    \/ CallUpdateSection(t)
    \/ Acquire(t)
    \/ LoadStore(t)
    \/ SaveStore(t)
    \/ UpdateSectionReturn(t)

StoreNext == \E t \in Threads : StoreStep(t)

StoreSpec == StoreInit /\ [][StoreNext]_vars

-----------------------------------------------------------------------------
(* Properties *)

\* the table as the next read sees it, and the table after the step
Table == load_daily_data(file)
TableAfter == load_daily_data(file')

\* the stored row of (u, d): the first one, as update_today finds it
TodayRow(frame, u, d) == frame[SetMin(MaskIndex(frame, u, d))]

\* thread t takes the step that leaves label l
Leaves(t, l) == pc[t] = l /\ pc'[t] # l

Supplied(o) == o.score # None \/ o.completed # None \/ o.total # None

\* the score the specification derives from the counts
Derived(c, t) == Frac(c * 100, IF t > 1 THEN t ELSE 1)

Abs(x) == IF x < 0 THEN -x ELSE x

\* thread t has returned from get_trend_data or get_prediction_summary
Returned(t, name) == pc[t] = "done" /\ op[t].name = name

\* the indices of the rows of user u in a frame
RowsOf(frame, u) == {i \in 1..Len(frame) : frame[i].user_id = u}

\* C1: with one request at a time, after any sequence of writes (update_today
\* and the backfill of the read path) no (user_id, date) pair has two rows, and
\* every pair that a completed write wrote has its row.
C1_OneRowPerUserDate ==
    LET T == Table
        keys == {<<T[i].user_id, T[i].date>> : i \in 1..Len(T)}
    IN  /\ Cardinality(keys) = Len(T)
        /\ written \subseteq keys

\* C1 witness: an upsert that found its row, followed by a backfill of the same user
C1_Witness ==
    /\ pc[1] = "done"
    /\ op[1].existed
    /\ <<op[1].user, op[1].date>> \in written
    /\ <<op[1].user, op[1].date - 1>> \in written

\* C2: when two update_today calls of two different users have both completed,
\* the table holds the row of each with the fields each call supplied.
C2_NoLostUpdate ==
    \A t1, t2 \in Threads :
        (/\ t1 # t2
         /\ pc[t1] = "done" /\ op[t1].name = "update_today"
         /\ pc[t2] = "done" /\ op[t2].name = "update_today"
         /\ op[t1].user # op[t2].user)
        => \A t \in {t1, t2} :
              /\ MaskIndex(Table, op[t].user, op[t].date) # {}
              /\ LET r == TodayRow(Table, op[t].user, op[t].date)
                 IN  /\ (op[t].score # None => r.score = op[t].score)
                     /\ (op[t].completed # None => r.completed = op[t].completed[1])
                     /\ (op[t].total # None => r.total = op[t].total[1])

\* C3: no summary outlives a write: every get_trend_data and
\* get_prediction_summary call returns only after reading the series in that
\* call, its history is that of the table as stored at that read, and its
\* streak that of the table as stored at the second read.
C3_SummaryRecomputed ==
    [][\A t \in Threads :
          /\ (pc[t] # "done" /\ pc'[t] = "done" /\ op[t].name # "update_today")
                => pc[t] = "ps_load"
          /\ (Leaves(t, "ps_load") /\ op[t].stage = 1)
                => ret'[t].history = HistoryScores(prepare_series(Table, op[t].user))
          /\ (Leaves(t, "ps_load") /\ op[t].stage = 2)
                => /\ ret'[t].history = ret[t].history
                   /\ ret'[t].streak = CurrentStreak(prepare_series(Table, op[t].user))]_vars

\* C3 witness: a summary of one user has read its trend after a completed
\* update_today of another user
C3_Witness ==
    /\ op[1].name = "get_prediction_summary"
    /\ op[1].stage = 2
    /\ Len(ret[1].history) > 0
    /\ \E a \in Users : a # op[1].user /\ <<a, today>> \in written

C5_ReadAfterWrite ==
    [][\A t \in Threads :
          Leaves(t, "ut_save")
          => /\ TableAfter = df[t]
             /\ Cardinality(MaskIndex(TableAfter, op[t].user, op[t].date)) = 1
             /\ LET r == TodayRow(TableAfter, op[t].user, op[t].date)
                IN  /\ (op[t].score # None => r.score = op[t].score)
                    /\ (op[t].completed # None => r.completed = op[t].completed[1])
                    /\ (op[t].total # None => r.total = op[t].total[1])
             /\ (~op[t].existed => TableAfter # Table)]_vars

\* C5 witness: update_today has returned and the table holds the score it wrote
C5_Witness ==
    /\ pc[1] = "done"
    /\ op[1].name = "update_today"
    /\ op[1].score # None
    /\ MaskIndex(Table, op[1].user, op[1].date) # {}
    /\ TodayRow(Table, op[1].user, op[1].date).score = op[1].score

\* C6: when update_today finds the row of (user_id, today), the write changes
\* in that row only the fields supplied, and no other row of the table.
C6_PartialUpdate ==
    [][\A t \in Threads :
          (Leaves(t, "ut_save") /\ op[t].existed)
          => LET idx == SetMin(MaskIndex(Table, op[t].user, op[t].date))
                 old == Table[idx]
                 new == TableAfter[idx]
             IN  /\ Len(TableAfter) = Len(Table)
                 /\ \A i \in 1..Len(Table) : i # idx => TableAfter[i] = Table[i]
                 /\ new.user_id = old.user_id /\ new.date = old.date
                 /\ new.score = IF op[t].score # None THEN op[t].score ELSE old.score
                 /\ new.completed =
                       IF op[t].completed # None THEN op[t].completed[1] ELSE old.completed
                 /\ new.total = IF op[t].total # None THEN op[t].total[1] ELSE old.total]_vars

\* C6 witness: an update of an existing row that supplied the counts and no
\* score has left the score different from the one the counts give
C6_Witness ==
    /\ pc[1] = "done"
    /\ op[1].existed
    /\ op[1].score = None
    /\ op[1].completed # None /\ op[1].total # None
    /\ TodayRow(Table, op[1].user, op[1].date).score
          # Derived(op[1].completed[1], op[1].total[1])

\* C7: an update_today with completed and total and no score, on the row that
\* an earlier such call with other counts has left, leaves one row whose score
\* is completed/total*100 of this call.
C7_SecondUpsertDerivesScore ==
    [][\A t \in Threads :
          (/\ Leaves(t, "ut_save")
           /\ op[t].existed
           /\ op[t].score = None /\ op[t].completed # None /\ op[t].total # None
           /\ LET old == TodayRow(Table, op[t].user, op[t].date)
              IN  /\ \E a \in CallArgs :
                        a = <<None, Some(old.completed), Some(old.total)>>
                  /\ old.score = Derived(old.completed, old.total)
                  /\ <<old.completed, old.total>> # <<op[t].completed[1], op[t].total[1]>>)
          => /\ Cardinality(MaskIndex(TableAfter, op[t].user, op[t].date)) = 1
             /\ TodayRow(TableAfter, op[t].user, op[t].date).score
                   = Derived(op[t].completed[1], op[t].total[1])]_vars

\* C8: after every update_today call with score omitted and completed and
\* total given, the row of (user_id, today) has score = completed/max(total,1)*100.
C8_ScoreDerivedFromCounts ==
    \A t \in Threads :
        (/\ pc[t] = "done" /\ op[t].name = "update_today"
         /\ op[t].score = None /\ op[t].completed # None /\ op[t].total # None)
        => /\ MaskIndex(Table, op[t].user, op[t].date) # {}
           /\ TodayRow(Table, op[t].user, op[t].date).score
                 = Derived(op[t].completed[1], op[t].total[1])

\* C9 as claimed: update_today with score, completed and total all omitted, for
\* a user with no row for today, writes the row (score 0, completed 0, total 0).
C9_ZeroDefaults ==
    \A t \in Threads :
        (/\ pc[t] = "done" /\ op[t].name = "update_today" /\ ~op[t].existed
         /\ ~Supplied(op[t]))
        => LET r == TodayRow(Table, op[t].user, op[t].date)
           IN  r.score = <<0, 1>> /\ r.completed = 0 /\ r.total = 0

\* C9 as amended: update_today with score, completed and total all omitted, for
\* a user with no row for today, writes the fallback row: total 6, completed 4
\* (70% of 6, rounded) and score 4/6*100 = 200/3.
C9_FallbackDefaults ==
    \A t \in Threads :
        (/\ pc[t] = "done" /\ op[t].name = "update_today" /\ ~op[t].existed
         /\ ~Supplied(op[t]))
        => /\ Cardinality(MaskIndex(Table, op[t].user, op[t].date)) = 1
           /\ LET r == TodayRow(Table, op[t].user, op[t].date)
              IN  r.score = <<200, 3>> /\ r.completed = 4 /\ r.total = 6

\* C9 witness: such a call has returned
C9_Witness ==
    /\ pc[1] = "done" /\ op[1].name = "update_today" /\ ~op[1].existed
    /\ ~Supplied(op[1])
    /\ MaskIndex(Table, op[1].user, op[1].date) # {}

\* C10: every stored record has completed <= total (the calls of the model
\* supply completed <= total whenever they supply both).
C10_CompletedAtMostTotal ==
    \A i \in 1..Len(Table) : Table[i].completed <= Table[i].total

\* C11: whenever _load_daily_data meets a missing, unreadable or malformed
\* file, the handler does not end in an exception, the file is reset to the
\* empty five-column table, and the next load succeeds.
C11_LoadRecovers ==
    [][\A t \in Threads :
          (pc[t] \in LoadLabels /\ pc'[t] # pc[t] /\ disk # "ok")
          => /\ pc'[t] # "raised"
             /\ disk' = "ok"
             /\ file' = save_daily_data(<< >>)]_vars

\* C12: while an update_today call stands completed and the other thread
\* serves a get_trend_data or get_prediction_summary call (or none), the table
\* holds the row of its (user_id, today), and with the fields the call
\* supplied unless the other thread serves the same user.
C12_CompletedWriteSurvives ==
    \A t \in Threads :
        (/\ pc[t] = "done" /\ op[t].name = "update_today"
         /\ \A o \in Threads \ {t} : op[o].name # "update_today")
        => /\ MaskIndex(Table, op[t].user, op[t].date) # {}
           /\ (\A o \in Threads \ {t} : op[o].user # op[t].user)
                 => LET r == TodayRow(Table, op[t].user, op[t].date)
                    IN  /\ (op[t].score # None => r.score = op[t].score)
                        /\ (op[t].completed # None => r.completed = op[t].completed[1])
                        /\ (op[t].total # None => r.total = op[t].total[1])

\* C13: get_trend_data of a user whose history window holds 1 to 4 records
\* fits no model and returns horizon forecast scores, each the mean of the
\* stored scores of the window rounded to the nearest integer (a mean half way
\* between two integers to the even one).
C13_SparseForecastIsMean ==
    \A t \in Threads :
        Returned(t, "get_trend_data")
        => LET h == Tail_n(prepare_series(Table, op[t].user), op[t].history_days)
               n == Len(h)
               s == SumScores(Targets(h))
               fc == ret[t].forecast
           IN  (1 <= n /\ n < 5)
               => /\ ~ret[t].fitted
                  /\ Len(fc) = op[t].horizon
                  /\ \A i \in 1..Len(fc) :
                        LET e == 2 * Abs(fc[i] * s[2] * n - s[1])
                        IN  e <= s[2] * n /\ (e = s[2] * n => fc[i] % 2 = 0)

\* C13 witness: a sparse history of three different scores and a week of forecast
C13_Witness ==
    /\ Returned(1, "get_trend_data")
    /\ Len(ret[1].history) = 3
    /\ ret[1].history[1] # ret[1].history[3]
    /\ ret[1].history[2] # ret[1].history[3]
    /\ Len(ret[1].forecast) = 7
    /\ ret[1].forecast[1] # ret[1].history[3]

\* C14: get_trend_data of a user with records returns exactly horizon forecast
\* scores and dates, the dates following the last history date day by day;
\* the history is in date order, holds min(history_days, available) records,
\* each the rounded score of a stored record of that user, and is the trailing
\* window: no record of the user from its first date on is left out.
C14_TrendShape ==
    \A t \in Threads :
        (Returned(t, "get_trend_data") /\ RowsOf(Table, op[t].user) # {})
        => LET T == Table
               R == RowsOf(T, op[t].user)
               k == Min(op[t].history_days, Cardinality(R))
               r == ret[t]
           IN  /\ Len(r.forecast) = op[t].horizon
               /\ Len(r.forecast_dates) = op[t].horizon
               /\ Len(r.history) = k
               /\ Len(r.history_dates) = k
               /\ \A i \in 1..op[t].horizon : r.forecast_dates[i] = r.history_dates[k] + i
               /\ \A i \in 1..(k - 1) : r.history_dates[i] < r.history_dates[i + 1]
               /\ \A i \in 1..k :
                     \E j \in R : /\ T[j].date = r.history_dates[i]
                                  /\ Round(T[j].score[1], T[j].score[2]) = r.history[i]
               /\ \A j \in R :
                     T[j].date >= r.history_dates[1]
                     => \E i \in 1..k : r.history_dates[i] = T[j].date

\* C14 witness: a fitted week of forecast from a table stored out of date
\* order that holds another user's row too
C14_Witness ==
    /\ Returned(1, "get_trend_data")
    /\ ret[1].fitted
    /\ Len(ret[1].forecast) = 7
    /\ Len(Table) > Len(ret[1].history)
    /\ \E i \in 1..(Len(Table) - 1) :
          Table[i].user_id = op[1].user /\ Table[i + 1].user_id = op[1].user
          /\ Table[i].date > Table[i + 1].date

\* C15: when every stored score of the user lies in [0, 100], every forecast
\* score get_trend_data returns is an integer in 0..100, with or without a fit.
C15_ForecastInRange ==
    \A t \in Threads :
        (/\ Returned(t, "get_trend_data")
         /\ \A j \in RowsOf(Table, op[t].user) : ~Less(Float(100), Table[j].score))
        => \A i \in 1..Len(ret[t].forecast) : ret[t].forecast[i] \in 0..100

\* C15 witness: a fitted forecast from stored scores in range, not all integers
C15_Witness ==
    /\ Returned(1, "get_trend_data")
    /\ ret[1].fitted
    /\ Len(ret[1].forecast) = 7
    /\ \A j \in RowsOf(Table, op[1].user) : ~Less(Float(100), Table[j].score)
    /\ \E j \in RowsOf(Table, op[1].user) : Table[j].score[2] # 1

\* C16: a get_trend_data call for a user who has no stored record when the
\* call starts returns an empty history and an empty forecast.
C16_EmptySeriesEmptyTrend ==
    \A t \in Threads :
        (Returned(t, "get_trend_data") /\ op[t].fresh)
        => /\ ret[t].history = << >> /\ ret[t].history_dates = << >>
           /\ ret[t].forecast = << >> /\ ret[t].forecast_dates = << >>

C18_SameInputsSameResult ==
    \A t \in Threads :
        (pc[t] = "eh_load" /\ op[t].stage = 1)
        => LET u == op[t].user
               miss == MissingDates(Table, u, today)
               missing == {miss[i] : i \in 1..Len(miss)}
               run(draw) == RoundedScores(Tail_n(
                                prepare_series(ensure_user_history(Table, u, today, draw), u),
                                op[t].history_days))
           IN  \A d1, d2 \in [missing -> SynthDraws] : run(d1) = run(d2)

\* C19: no step of a get_trend_data call, or of a get_prediction_summary call
\* with today_score, completed and total all omitted, changes the file.
C19_ReadsLeaveFile ==
    [][\A t \in Threads :
          (/\ pc'[t] # pc[t]
           /\ op[t].name \in {"get_trend_data", "get_prediction_summary"}
           /\ ~Supplied(op[t]))
          => file' = file]_vars

\* C20 as claimed: the confidence returned is 1 - min(std/100, 0.6) of the
\* history scores (to two decimals), so it lies in [0.4, 1.0].
C20_ConfidenceAsClaimed ==
    \A t \in Threads :
        (Returned(t, "get_prediction_summary") /\ ~ret[t].insufficient)
        => LET n == Len(ret[t].history)
               v == VarTimesN2(ret[t].history)
               c == ret[t].confidence
           IN  /\ c \in 40..100
               /\ IF v >= 3600 * n * n THEN c = 40
                  ELSE /\ (c < 100 => 4 * v >= (199 - 2 * c) * (199 - 2 * c) * n * n)
                       /\ 4 * v <= (201 - 2 * c) * (201 - 2 * c) * n * n

\* C20 as amended: the confidence returned is 0.9 when the population standard
\* deviation of the history scores is 0, and otherwise 1 - std/100 clipped to
\* [0.5, 0.95] (to two decimals); it always lies in [0.5, 0.95].
C20_ConfidenceClipped ==
    \A t \in Threads :
        (Returned(t, "get_prediction_summary") /\ ~ret[t].insufficient)
        => LET n == Len(ret[t].history)
               v == VarTimesN2(ret[t].history)
               c == ret[t].confidence
           IN  /\ c \in 50..95
               /\ (v = 0 => c = 90)
               /\ (v > 0 /\ c < 95 => 4 * v >= (199 - 2 * c) * (199 - 2 * c) * n * n)
               /\ (v > 0 /\ c > 50 => 4 * v <= (201 - 2 * c) * (201 - 2 * c) * n * n)

\* C20 witness: a summary whose confidence is strictly inside the clip bounds
C20_Witness ==
    /\ Returned(1, "get_prediction_summary")
    /\ ~ret[1].insufficient
    /\ ret[1].confidence > 50 /\ ret[1].confidence < 95
    /\ ret[1].confidence # 90

\* n^3 times the population variance of the scores xs, from the deviations:
\* the sum of (n*x - sum(xs))^2
DevSquares(xs) ==
    SumInts([i \in 1..Len(xs) |-> (Len(xs) * xs[i] - SumInts(xs)) * (Len(xs) * xs[i] - SumInts(xs))])

\* the mean of xs is above 82 and its standard deviation below 8
HighAndSteady(xs) ==
    /\ SumInts(xs) > 82 * Len(xs)
    /\ DevSquares(xs) < 64 * Len(xs) * Len(xs) * Len(xs)

\* C21: the workload label of a summary is a function of the mean m and the
\* standard deviation s of the history scores alone: "overwork" exactly when
\* m > 82 and s < 8, "underwork" exactly when that does not hold and m < 55,
\* and "balanced" in every other case, so every history gets exactly one label.
C21_WorkloadThresholds ==
    \A t \in Threads :
        (Returned(t, "get_prediction_summary") /\ ~ret[t].insufficient)
        => LET xs == ret[t].history
               w == ret[t].workload
           IN  /\ w \in {"overwork", "underwork", "balanced"}
               /\ (w = "overwork") = HighAndSteady(xs)
               /\ (w = "underwork") = (~HighAndSteady(xs) /\ SumInts(xs) < 55 * Len(xs))

\* C21 witness: a summary whose history has a mean above 82 and a standard
\* deviation of 8 or more, labelled "balanced"
C21_Witness ==
    /\ Returned(1, "get_prediction_summary")
    /\ ~ret[1].insufficient
    /\ SumInts(ret[1].history) > 82 * Len(ret[1].history)
    /\ ~HighAndSteady(ret[1].history)
    /\ ret[1].workload = "balanced"

\* predict_all has returned its result
Predicted == att.pc = "done" /\ att.name = "predict_all"

\* the sum of the three tomorrow probabilities that predict_all combined
SumOfThree == att.lr_pred + att.lstm_pred + att.prophet_preds[1]

\* C22: predict_all returns the arithmetic mean of the three tomorrow
\* probabilities as average_prediction and 1 minus that mean as
\* absence_likelihood (each rounded to three decimals); before rounding the two
\* sum to 1, and both lie in [0, 1]; the inputs 0.9, 0.8 and 0.85 give 0.85 and
\* 0.15.
C22_EnsembleMean ==
    Predicted
    => LET absence == calculate_absence_likelihood(att.lr_pred, att.lstm_pred,
                                                   att.prophet_preds[1])
       IN  /\ att.ret.average_prediction = Round(SumOfThree, 3)
           /\ att.ret.absence_likelihood = Round(3000 - SumOfThree, 3)
           /\ 3 * absence[1] + SumOfThree * absence[2] = 3000 * absence[2]
           /\ absence[1] >= 0 /\ absence[1] <= 1000 * absence[2]
           /\ att.ret.average_prediction \in 0..1000
           /\ att.ret.absence_likelihood \in 0..1000
           /\ (/\ att.lr_pred = 900
               /\ att.prophet_preds[1] = 800
               /\ att.lstm_pred = 850)
              => /\ att.ret.average_prediction = 850
                 /\ att.ret.absence_likelihood = 150

\* C22 witness: predict_all has combined the predictions 0.9, 0.8 and 0.85 of
\* three fitted models
C22_Witness ==
    /\ Predicted
    /\ att.fellback = {}
    /\ att.lr_pred = 900 /\ att.prophet_preds[1] = 800 /\ att.lstm_pred = 850
    /\ att.ret.average_prediction = 850
    /\ att.ret.absence_likelihood = 150

\* C23: a sub-predictor that has no usable model, or whose prediction step
\* fails, returns the fallback 0.75 for tomorrow, whichever of the three it
\* is.
C23_FallbackThreeQuarters ==
    Predicted
    => /\ ("lr_model" \in att.fellback => att.ret.lr_prediction = FallbackProbability)
       /\ ("prophet_model" \in att.fellback
              => att.ret.prophet_prediction = FallbackProbability)
       /\ ("lstm_model" \in att.fellback => att.ret.lstm_prediction = FallbackProbability)

\* C24 as claimed: current_streak is the number of consecutive present
\* entries at the end of the chronological record sequence.
C24_StreakIsTrailingRun ==
    Predicted
    => LET s == att.ret.streak_prediction.current_streak
           n == Len(att.data)
       IN  /\ s \in 0..n
           /\ \A i \in (n - s + 1)..n : att.data[i].attendance = 1000
           /\ s < n => att.data[n - s].attendance # 1000

\* C24 as amended: current_streak is the number of consecutive present
\* entries at the end of the 14 most recent records of the chronological
\* sequence; it is 0 when the most recent entry is absent or a half day.
C24_StreakWithinWindow ==
    Predicted
    => LET s == att.ret.streak_prediction.current_streak
           n == Len(att.data)
           w == Min(n, StreakWindow)
       IN  /\ s \in 0..w
           /\ \A i \in (n - s + 1)..n : att.data[i].attendance = 1000
           /\ s < w => att.data[n - s].attendance # 1000
           /\ (n > 0 /\ att.data[n].attendance \in {0, 500}) => s = 0
           /\ \A i \in 1..(n - 1) : att.data[i].date <= att.data[i + 1].date

\* C24 witness: more than 14 present days end the record sequence, and the
\* streak returned is 14
C24_Witness ==
    /\ Predicted
    /\ Len(att.data) > StreakWindow
    /\ \A i \in (Len(att.data) - StreakWindow)..Len(att.data) : att.data[i].attendance = 1000
    /\ att.ret.streak_prediction.current_streak = StreakWindow

\* C24, productivity variant: the streak of a summary is the number of
\* consecutive rows with a score above 0 at the end of the user's series
C24_ProductivityStreak ==
    \A t \in Threads :
        (Returned(t, "get_prediction_summary") /\ ~ret[t].insufficient)
        => LET series == prepare_series(Table, ret[t].user)
               s == ret[t].streak
               n == Len(series)
           IN  /\ s \in 0..n
               /\ \A i \in (n - s + 1)..n : series[i].score[1] > 0
               /\ s < n => series[n - s].score[1] = 0

\* C25: the probability_continue of the streak forecast in the result of
\* predict_all is round(ensemble * 100, 1), the ensemble being the mean of the
\* three tomorrow probabilities.
C25_ContinueFromEnsemble ==
    Predicted
    => att.ret.streak_prediction.probability_continue
          = Round(SumOfThree * 100 * 10, 3 * 1000)

\* C26 as claimed: for a probability p in [0, 1] the expected continuation
\* is 10 exactly when p >= 0.99, and round(p / (1 - p), 1) otherwise.
C26_TenExactlyAtClamp ==
    Predicted
    => LET p == att.lr_pred
           e == att.ret.streak_prediction.expected_end_in
       IN  /\ (e = ClampedDays) = (p >= 990)
           /\ p < 990 => e = Round(10 * p, 1000 - p)

\* C26 as amended: for a probability p in [0, 1] the expected continuation
\* is 10 whenever p >= 0.99 and otherwise p / (1 - p) to the nearest tenth, a
\* division by at least 0.01; the value 10.0 is also what the quotient rounds
\* to for p next to 10/11.
C26_ExpectedDays ==
    Predicted
    => LET p == att.lr_pred
           e == att.ret.streak_prediction.expected_end_in
       IN  /\ p \in 0..1000
           /\ p >= 990 => e = 100
           /\ p < 990 => /\ 1000 - p > 10
                         /\ 2 * Abs(e * (1000 - p) - 10 * p) <= 1000 - p

\* C26 witness: the streak forecast of the probability 1
C26_Witness ==
    /\ Predicted
    /\ att.lr_pred = 1000
    /\ att.ret.streak_prediction.expected_end_in = 100

\* C27: after a train call whose fit raised the sub-predictor is untrained
\* (is_trained is false) and train has returned false, also when an earlier
\* train of that sub-predictor succeeded; the next predict returns the
\* fallback and predict_all returns its result.
C27_FailedTrainLeavesUntrained ==
    /\ \A m \in SubPredictors :
          (att.name = "train_all_models" /\ att.pc = "done" /\ predictor[m].fit_raised)
          => ~predictor[m].is_trained
    /\ \A m \in SubPredictors :
          (Predicted /\ predictor[m].fit_raised) => m \in att.fellback

\* the days of the backfill window of day d0 that user u has no row for in frame
Gaps(frame, u, d0) ==
    {d \in (d0 - days + 1)..(d0 - 1) : \A i \in 1..Len(frame) :
                                           ~(frame[i].user_id = u /\ frame[i].date = d)}

\* C28: the backfill of the read path, run for user u on day d0, appends rows
\* only: the file it saves holds every row of the file before, unchanged and
\* in place (the rows of other users among them), followed by one row of u for
\* each day of the window before d0 that u had no row for, none of them dated
\* d0 or later and none for a (user, date) already present; it saves only when
\* there is such a day, and when it returns no such day is left, so a second
\* run on the same day changes nothing.
C28_BackfillOnlyGaps ==
    [][\A t \in Threads :
          /\ Leaves(t, "eh_save")
             => LET T == Table
                    after == TableAfter
                    u == op[t].user
                    added == (Len(T) + 1)..Len(after)
                IN  /\ Len(after) > Len(T)
                    /\ SubSeq(after, 1, Len(T)) = T
                    /\ \A i \in added : after[i].user_id = u /\ after[i].date < today
                    /\ \A i, j \in added : after[i].date = after[j].date => i = j
                    /\ \E d0 \in 0..today :
                          /\ {after[i].date : i \in added} = Gaps(T, u, d0)
                          /\ Gaps(after, u, d0) = {}
          /\ (Leaves(t, "eh_load") /\ pc'[t] = "ps_load")
             => /\ TableAfter = Table
                /\ Gaps(Table, op[t].user, today) = {}]_vars

\* C28 witness: the second backfill of one get_prediction_summary call has run
\* on the day of the first, which added the row of the day before for a user
\* that had none, next to the rows of the other user
C28_Witness ==
    LET T == Table
    IN  /\ pc[1] = "ps_load" /\ op[1].stage = 2 /\ ncalls = 1 /\ today = 0
        /\ written # {}
        /\ \E i \in 1..Len(T) : T[i].user_id # op[1].user
        /\ Cardinality({i \in 1..Len(T) : T[i].user_id = op[1].user}) = days - 1

\* the value the store holds under the (section, key) that thread t has set
Persisted(t) == prediction_store[upd[t].section][upd[t].key[1]]

\* C29: when the first update_section calls of two threads set two different
\* (section, key) pairs and both have completed, the store holds both values.
C29_BothUpdatesPersist ==
    \A t1, t2 \in Threads :
       (/\ t1 # t2
        /\ upd[t1].pc = "done" /\ upd[t1].calls = 1
        /\ upd[t2].pc = "done" /\ upd[t2].calls = 1
        /\ <<upd[t1].section, upd[t1].key>> # <<upd[t2].section, upd[t2].key>>)
       => Persisted(t1) = upd[t1].value /\ Persisted(t2) = upd[t2].value

\* C30: with one request at a time and after any sequence of writes by any
\* users, the save of update_today for user A leaves every row of every other
\* user unchanged and in place, and whatever it appends is A's; the history
\* that get_trend_data and get_prediction_summary return for A is the dates
\* and rounded scores of A's own most recent rows, one entry per row.
C30_PerUserIsolation ==
    [][\A t \in Threads :
          /\ Leaves(t, "ut_save")
             => LET T == Table
                    after == TableAfter
                IN  /\ Len(after) >= Len(T)
                    /\ \A j \in 1..Len(T) : T[j].user_id # op[t].user => after[j] = T[j]
                    /\ \A j \in (Len(T) + 1)..Len(after) : after[j].user_id = op[t].user
          /\ (Leaves(t, "ps_load") /\ op[t].stage = 1)
             => LET T == Table
                    R == {j \in 1..Len(T) : T[j].user_id = op[t].user}
                    r == ret'[t]
                    k == Len(r.history)
                IN  /\ k = Min(op[t].history_days, Cardinality(R))
                    /\ Len(r.history_dates) = k
                    /\ \A i \in 1..(k - 1) : r.history_dates[i] < r.history_dates[i + 1]
                    /\ \A i \in 1..k :
                          \E j \in R : /\ T[j].date = r.history_dates[i]
                                       /\ Round(T[j].score[1], T[j].score[2]) = r.history[i]
          /\ (Leaves(t, "ps_load") /\ op[t].stage = 2)
             => /\ ret'[t].history = ret[t].history
                /\ ret'[t].history_dates = ret[t].history_dates]_vars

\* C30 witness: a summary returned for a user whose call wrote today's row,
\* from a table that holds rows written for the other user before
C30_Witness ==
    /\ Returned(1, "get_prediction_summary")
    /\ op[1].upserted
    /\ Len(ret[1].history) > 0
    /\ \E u \in Users \ {op[1].user} :
          /\ \E d \in 0..today : <<u, d>> \in written
          /\ \E j \in 1..Len(Table) : Table[j].user_id = u

====
